---- MODULE Spec2Model ----
(***************************************************************************)
(* Bookshelf.js 0.1.0: relation accessors, the eager-loading resolver      *)
(* (EagerRelation), the relation constraints and the pivot helpers of a    *)
(* belongsToMany relation, and the query dispatcher (Sync) with the         *)
(* per-object query builder, over a small relational store.                *)
(*                                                                         *)
(* The store holds one self-referential table "nodes"(id, node_id) and a   *)
(* join table "links"(src_id, dst_id).  The entity type Node declares one  *)
(* accessor of each relation kind, all of them targeting Node, so that any *)
(* dotted path over the accessor names is a valid request.  A dotted path  *)
(* "a.b.c" is held as the sequence of its segments <<"a", "b", "c">>.      *)
(***************************************************************************)
EXTENDS Integers, Sequences, FiniteSets, TLC

VARIABLES
  call,     \* the API call under way and its arguments
  parent,   \* the Entity or Entity Set a call is made on, or that it returns
  levels,   \* EagerRelation objects, by the path of relation names leading to them
  fetches,  \* relation targets being fetched, by the path of relation names
  queries,  \* every query handed to the query builder for execution, in order
  outcome,  \* the promise the API call returned
  builder,  \* the _builder of the object: <<>> when it has none, <<b>> otherwise
  ops       \* the query operations started on the object so far

vars == <<call, parent, levels, fetches, queries, outcome, builder, ops>>

\* ------------------------------------------------------------------ bounds
\* rows of the table "nodes"
NumRows == 4
\* largest parent Entity Set a load is called on
MaxParents == 3
\* longest dotted path of a request
MaxDepth == 3
\* most paths in one withRelated list
MaxPaths == 2
\* most distinct relation fetches one withRelated list asks for
MaxFetches == 3
\* most items handed to one attach / detach
MaxItems == 2
\* most query operations made one after the other on one object
MaxOps == 2
\* most query operations made on the target a relation accessor returned
MaxTargetOps == 1

\* ------------------------------------------------------------------ values
\* null / undefined among attribute values
Null == 0 - 1
NoToken == "none"
Tokens == {"t1"}

EmptyAttrs == [k \in {} |-> Null]

\* model.get(key)
Get(attrs, key) == IF key \in DOMAIN attrs THEN attrs[key] ELSE Null

RelNames == {"one", "many", "owner", "peers"}

\* a relation name the entity type declares no accessor for
UnknownName == "bogus"

\* a value of a relation map: no entry, an entry holding undefined,
\* an Entity, or an Entity Set
Absent == [kind |-> "absent"]
Undefined == [kind |-> "undefined"]
NoRelations == [n \in RelNames |-> Absent]
NewModel(attrs) == [kind |-> "model", attrs |-> attrs, relations |-> NoRelations]
NewCollection(models) == [kind |-> "collection", models |-> models]

\* ------------------------------------------------------------------ store
NodeRow(i) == ("id" :> i) @@ ("node_id" :> (IF i = 1 THEN Null ELSE i \div 2))
Nodes == [i \in 1..NumRows |-> NodeRow(i)]

LinkPairs == {pr \in (1..NumRows) \X (1..NumRows) : pr[1] < pr[2] /\ pr[2] - pr[1] <= 2}

RECURSIVE SetToSeq(_)
SetToSeq(S) ==
  IF S = {} THEN <<>>
  ELSE LET x == CHOOSE y \in S : \A z \in S : (y[1] < z[1]) \/ (y[1] = z[1] /\ y[2] <= z[2])
       IN <<x>> \o SetToSeq(S \ {x})

Links == [i \in 1..Cardinality(LinkPairs) |->
            ("src_id" :> SetToSeq(LinkPairs)[i][1]) @@ ("dst_id" :> SetToSeq(LinkPairs)[i][2])]

\* ------------------------------------------------------------------ entity type
TableName == "nodes"
IdAttribute == "id"
JoinTable == "links"

\* Inflection.singularize, on the table names of the store
Singularize(table) ==
  CASE table = "nodes" -> "node"
    [] table = "links" -> "link"
    [] OTHER -> table

\* the table names of the store in the order Array.prototype.sort gives them
SortedTables == <<"links", "nodes">>
TableRank(table) == CHOOSE i \in 1..Len(SortedTables) : SortedTables[i] = table

\* [a, b].sort().join('_')
SortedJoin(a, b) ==
  IF TableRank(a) <= TableRank(b) THEN a \o "_" \o b ELSE b \o "_" \o a

\* this.id of an Entity
IdOf(attrs) == Get(attrs, IdAttribute)

\* Model._relatesTo: the descriptor kept in target._relation.  In eager mode
\* the constructors and parentIdAttr are captured and fkValue is left unset;
\* otherwise fkValue is bound from the owner.
RelatesTo(this, isEager, options) ==
  [type |-> options.type,
   foreignKey |-> options.foreignKey,
   otherKey |-> options.otherKey,
   joinTableName |-> options.joinTableName,
   eager |-> isEager,
   parentIdAttr |-> IF isEager THEN IdAttribute ELSE "",
   fkValue |-> IF isEager THEN Null
               ELSE IF options.type = "belongsTo" THEN Get(this, options.otherKey)
               ELSE IdOf(this)]

HasOne(this, isEager, foreignKey) ==
  RelatesTo(this, isEager,
    [type |-> "hasOne",
     foreignKey |-> IF foreignKey # "" THEN foreignKey ELSE Singularize(TableName) \o "_id",
     otherKey |-> "", joinTableName |-> ""])

HasMany(this, isEager, foreignKey) ==
  RelatesTo(this, isEager,
    [type |-> "hasMany",
     foreignKey |-> IF foreignKey # "" THEN foreignKey ELSE Singularize(TableName) \o "_id",
     otherKey |-> "", joinTableName |-> ""])

\* table is the tableName of the Target the relation is declared with
BelongsTo(this, isEager, table, otherKey) ==
  RelatesTo(this, isEager,
    [type |-> "belongsTo",
     foreignKey |-> IdAttribute,
     otherKey |-> IF otherKey # "" THEN otherKey ELSE Singularize(table) \o "_id",
     joinTableName |-> ""])

\* belongsToMany that joins the two table names in the order owner, target
BelongsToManyUnsorted(this, isEager, table, joinTableName, foreignKey, otherKey) ==
  RelatesTo(this, isEager,
    [type |-> "belongsToMany",
     otherKey |-> IF otherKey # "" THEN otherKey ELSE Singularize(TableName) \o "_id",
     foreignKey |-> IF foreignKey # "" THEN foreignKey ELSE Singularize(table) \o "_id",
     joinTableName |-> IF joinTableName # "" THEN joinTableName
                       ELSE TableName \o "_" \o table])

BelongsToMany(this, isEager, table, joinTableName, foreignKey, otherKey) ==
  RelatesTo(this, isEager,
    [type |-> "belongsToMany",
     otherKey |-> IF otherKey # "" THEN otherKey ELSE Singularize(TableName) \o "_id",
     foreignKey |-> IF foreignKey # "" THEN foreignKey ELSE Singularize(table) \o "_id",
     joinTableName |-> IF joinTableName # "" THEN joinTableName
                       ELSE SortedJoin(TableName, table)])

\* the accessors the entity type Node declares: target[name]()
Accessor(name, this, isEager) ==
  CASE name = "one" -> HasOne(this, isEager, "")
    [] name = "many" -> HasMany(this, isEager, "")
    [] name = "owner" -> BelongsTo(this, isEager, TableName, "")
    [] name = "peers" -> BelongsToMany(this, isEager, TableName, JoinTable, "dst_id", "src_id")

\* target._relation of an object no accessor returned
NoRelation == [type |-> "none"]

\* a relation accessor of the given kind, declared on Node with a Target whose
\* tableName is table and, for belongsToMany, with the joinTableName argument
Declared(type, this, isEager, table, joinTableName) ==
  CASE type = "hasOne" -> HasOne(this, isEager, "")
    [] type = "hasMany" -> HasMany(this, isEager, "")
    [] type = "belongsTo" -> BelongsTo(this, isEager, table, "")
    [] type = "belongsToMany" -> BelongsToMany(this, isEager, table, joinTableName, "", "")

IsMulti(type) == type \in {"hasMany", "belongsToMany"}

\* the constructors a relation may be declared with
TargetTypes == {"Model", "Collection"}

\* Target.prototype, an object
Prototype(Target) == [kind |-> "object", of |-> Target]

\* !v of a value: an object is truthy, so its negation is the boolean false
Not(v) == [kind |-> "boolean", val |-> IF v.kind = "object" THEN FALSE ELSE ~v.val]

\* v instanceof Model: only an object whose prototype chain holds Model.prototype
InstanceOfModel(v) == v.kind = "object" /\ v.of = "Model"

\* the message of the Error _relatesTo throws for a single-valued relation
RelationTypeMismatch(type) == "The " \o type \o " related object must be a Bookshelf.Model"

\* the guard of _relatesTo, !Target.prototype instanceof Model: the negation
\* applies to the prototype, and the boolean it gives is what is tested
RelatesToThrows(Target, type) ==
  ~IsMulti(type) /\ InstanceOfModel(Not(Prototype(Target)))

\* new Target() in _relatesTo: a Model target of a multi-valued relation is
\* wrapped in a Collection type first
RelationTarget(Target, type) ==
  LET isCollection == IF IsMulti(type) THEN TRUE ELSE Target = "Collection"
  IN [isCollection |-> isCollection,
      models |-> IF isCollection THEN <<>> ELSE <<NewModel(EmptyAttrs)>>,
      relation |-> NoRelation,
      isEager |-> FALSE]

\* ------------------------------------------------------------------ query builder
\* Shared.builder: a fresh query builder on a table
Builder(table) ==
  [table |-> table, columns |-> <<>>, joins |-> <<>>, wheres |-> <<>>,
   transacting |-> NoToken, limit |-> 0]

WhereIn(b, col, vals) ==
  [b EXCEPT !.wheres = Append(@, [op |-> "in", col |-> col, vals |-> vals])]

WhereEq(b, col, val) ==
  [b EXCEPT !.wheres = Append(@, [op |-> "=", col |-> col, vals |-> <<val>>])]

Join(b, table, left, right) ==
  [b EXCEPT !.joins = Append(@, [table |-> table, left |-> left, right |-> right])]

Transacting(b, token) == [b EXCEPT !.transacting = token]

Limit(b, n) == [b EXCEPT !.limit = n]

\* _.pluck(resp, key)
Pluck(resp, key) == [i \in 1..Len(resp) |-> Get(resp[i], key)]

\* constraints that pluck the relation's foreign key from the parents' rows
ConstraintsOnForeignKey(b, relation, hasResp, resp) ==
  IF hasResp
  THEN WhereIn(b, relation.foreignKey, Pluck(resp, relation.foreignKey))
  ELSE WhereEq(b, relation.foreignKey, relation.fkValue)

\* constraints(target, resp): whereIn over the parents' response when there is
\* one, the bound fkValue otherwise
Constraints(b, relation, hasResp, resp) ==
  IF hasResp
  THEN WhereIn(b, relation.foreignKey, Pluck(resp, relation.parentIdAttr))
  ELSE WhereEq(b, relation.foreignKey, relation.fkValue)

\* belongsToMany(target, resp): the target's columns plus the aliased pivot
\* keys, the join of the pivot table, and the constraint on its otherKey
BelongsToManyConstraints(b, relation, hasResp, resp) ==
  LET cols == [b EXCEPT !.columns = @ \o
                 << [src |-> TableName \o ".*", as |-> ""],
                    [src |-> relation.joinTableName \o "." \o relation.otherKey,
                     as |-> "_pivot_" \o relation.otherKey],
                    [src |-> relation.joinTableName \o "." \o relation.foreignKey,
                     as |-> "_pivot_" \o relation.foreignKey] >>]
      joined == Join(cols, relation.joinTableName,
                     TableName \o "." \o IdAttribute,
                     relation.joinTableName \o "." \o relation.foreignKey)
  IN IF hasResp
     THEN WhereIn(joined, relation.joinTableName \o "." \o relation.otherKey,
                  Pluck(resp, IdAttribute))
     ELSE WhereEq(joined, relation.joinTableName \o "." \o relation.otherKey,
                  relation.fkValue)

\* Bookshelf.addConstraints
AddConstraints(b, relation, hasResp, resp) ==
  IF relation.type # "belongsToMany"
  THEN Constraints(b, relation, hasResp, resp)
  ELSE BelongsToManyConstraints(b, relation, hasResp, resp)

\* ------------------------------------------------------------------ the store answering a select
InSeq(v, s) == \E i \in 1..Len(s) : s[i] = v

\* a row satisfies every where-predicate of the builder (NULL never matches)
RowMatches(row, wheres) ==
  \A i \in 1..Len(wheres) :
    /\ Get(row, wheres[i].col) # Null
    /\ InSeq(Get(row, wheres[i].col), wheres[i].vals)

\* a row of table under its table-qualified column names
Qualified(table, row) ==
  [k \in {table \o "." \o c : c \in DOMAIN row} |->
     row[CHOOSE c \in DOMAIN row : table \o "." \o c = k]]

\* nodes x links, every pair of rows, under qualified column names
CrossRows ==
  [i \in 1..(Len(Nodes) * Len(Links)) |->
     Qualified(TableName, Nodes[((i - 1) \div Len(Links)) + 1])
       @@ Qualified(JoinTable, Links[((i - 1) % Len(Links)) + 1])]

\* the columns of one result row: table.* gives the table's columns under their
\* own names, "src as alias" gives the alias
Project(row, columns) ==
  LET star == {i \in 1..Len(columns) : columns[i].as = ""}
      named == {i \in 1..Len(columns) : columns[i].as # ""}
      own == IF star = {} THEN {} ELSE DOMAIN Nodes[1]
  IN [k \in own \cup {columns[i].as : i \in named} |->
        IF k \in own THEN row[TableName \o "." \o k]
        ELSE row[columns[CHOOSE i \in named : columns[i].as = k].src]]

\* the first b.limit rows when the builder carries a limit
Limited(b, rows) ==
  IF b.limit > 0 /\ Len(rows) > b.limit THEN SubSeq(rows, 1, b.limit) ELSE rows

\* select * over the join: the columns of both tables under their own names
AllColumns(row) ==
  [k \in DOMAIN Nodes[1] \cup DOMAIN Links[1] |->
     IF k \in DOMAIN Nodes[1] THEN row[TableName \o "." \o k] ELSE row[JoinTable \o "." \o k]]

\* rows a select of the builder returns, in table order
RunSelect(b) ==
  IF b.joins = <<>>
  THEN Limited(b, SelectSeq(Nodes, LAMBDA r : RowMatches(r, b.wheres)))
  ELSE LET hits == SelectSeq(CrossRows,
                     LAMBDA r : /\ r[b.joins[1].left] = r[b.joins[1].right]
                                /\ RowMatches(r, b.wheres))
       IN Limited(b, [i \in 1..Len(hits) |->
                        IF b.columns = <<>> THEN AllColumns(hits[i])
                        ELSE Project(hits[i], b.columns)])

\* skim(resp): keeps the own keys of every row
Skim(resp) == [i \in 1..Len(resp) |-> [k \in DOMAIN resp[i] |-> resp[i][k]]]

\* ------------------------------------------------------------------ relation resolver
\* target[name] is a function
HasAccessor(name) == name \in RelNames

\* the loop of processRelated over options.withRelated: the names in first-seen
\* order (the keys of `handled`) and, by name, the suffixes to load below it.
\* Calling target[name]() for a name without an accessor throws, which ends the
\* loop before any fetch is dispatched.
RECURSIVE ParseRelated(_, _, _)
ParseRelated(withRelated, i, acc) ==
  IF i > Len(withRelated) THEN acc
  ELSE IF ~InSeq(withRelated[i][1], acc.names) /\ ~HasAccessor(withRelated[i][1])
  THEN [acc EXCEPT !.thrown = TRUE]
  ELSE LET related == withRelated[i]
           name == related[1]
           sub == IF Len(related) > 1
                  THEN [acc.subRelated EXCEPT ![name] = Append(@, Tail(related))]
                  ELSE acc.subRelated
           names == IF InSeq(name, acc.names) THEN acc.names ELSE Append(acc.names, name)
       IN ParseRelated(withRelated, i + 1,
                       [names |-> names, subRelated |-> sub, thrown |-> FALSE])

Handled(withRelated) ==
  ParseRelated(withRelated, 1,
               [names |-> <<>>, subRelated |-> [n \in RelNames |-> <<>>], thrown |-> FALSE])

\* a fetch builder constrained by the first row of the parents' response only
FetchBuilderFromFirstRow(relation, parentResponse, options) ==
  AddConstraints(Builder(TableName), relation, TRUE,
                 IF parentResponse = <<>> THEN <<>> ELSE <<parentResponse[1]>>)

\* the builder EagerRelation.fetch runs its select on: the relation's constraints
\* over the parents' response; options.transacting is never handed to it
FetchBuilder(relation, parentResponse, options) ==
  AddConstraints(Builder(TableName), relation, TRUE, parentResponse)

\* a query as the log keeps it
Query(op, path, b, data) ==
  [op |-> op, path |-> path, table |-> b.table, columns |-> b.columns, joins |-> b.joins,
   wheres |-> b.wheres, data |-> data, transacting |-> b.transacting, limit |-> b.limit]

\* the second half of processRelated: one fetch per handled name, each called with
\* {transacting, withRelated: subRelated[name]} and issuing its select at once
NewFetch(name, target, parentResponse, options, handled) ==
  LET relation == Accessor(name, target, TRUE)
      opts == [transacting |-> options.transacting, withRelated |-> handled.subRelated[name]]
  IN [status |-> "pending",
      relation |-> relation,
      options |-> opts,
      builder |-> FetchBuilder(relation, parentResponse, opts),
      resp |-> <<>>,
      models |-> <<>>,
      relations |-> NoRelations]

\* processRelated that fetches each relation once per parent row
ProcessRelatedPerParent(path, target, parentResponse, options) ==
  LET handled == Handled(options.withRelated)
      names == IF handled.thrown THEN <<>> ELSE handled.names
      n == Len(parentResponse)
      made == [i \in 1..Len(names) |-> NewFetch(names[i], target, parentResponse, options, handled)]
      one(i, k) == AddConstraints(Builder(TableName), made[i].relation, TRUE, <<parentResponse[k]>>)
  IN [level |-> [status |-> "waiting", pendingNames |-> names,
                 parentResponse |-> parentResponse, done |-> <<>>],
      fetches |-> [q \in {path \o <<names[i]>> : i \in 1..Len(names)} |->
                     made[CHOOSE i \in 1..Len(names) : path \o <<names[i]>> = q]],
      queries |-> [j \in 1..(Len(names) * n) |->
                     Query("select", path \o <<names[((j - 1) \div n) + 1]>>,
                           one(((j - 1) \div n) + 1, ((j - 1) % n) + 1), EmptyAttrs)],
      thrown |-> handled.thrown,
      isEager |-> handled.thrown]

\* processRelated on a new EagerRelation(parent, target, parentResponse) at path.
\* target._isEager is set before each accessor call and deleted after it, so it
\* is what the loop leaves on the target: set when a call threw, unset otherwise
ProcessRelated(path, target, parentResponse, options) ==
  LET handled == Handled(options.withRelated)
      names == IF handled.thrown THEN <<>> ELSE handled.names
      made == [i \in 1..Len(names) |-> NewFetch(names[i], target, parentResponse, options, handled)]
  IN [level |-> [status |-> "waiting", pendingNames |-> names,
                 parentResponse |-> parentResponse, done |-> <<>>],
      fetches |-> [q \in {path \o <<names[i]>> : i \in 1..Len(names)} |->
                     made[CHOOSE i \in 1..Len(names) : path \o <<names[i]>> = q]],
      queries |-> [i \in 1..Len(names) |->
                     Query("select", path \o <<names[i]>>, made[i].builder, EmptyAttrs)],
      thrown |-> handled.thrown,
      isEager |-> handled.thrown]

\* a where that stops at the first model whose attribute equals id
WhereFirst(models, key, id) ==
  LET found == SelectSeq(models, LAMBDA m : Get(m.attrs, key) = id)
  IN IF found = <<>> THEN <<>> ELSE <<found[1]>>

\* Collection.where / findWhere of RelatedModels: the models whose attribute equals id
Where(models, key, id) == SelectSeq(models, LAMBDA m : Get(m.attrs, key) = id)

\* eagerRelated that hands every fetched model to every parent
EagerRelatedUnfiltered(type, relation, eager, id) ==
  IF type \in {"hasOne", "belongsTo"}
  THEN (IF eager = <<>> THEN Undefined ELSE eager[1])
  ELSE NewCollection(eager)

\* Bookshelf.eagerRelated
EagerRelated(type, relation, eager, id) ==
  CASE type \in {"hasOne", "belongsTo"} ->
         LET found == Where(eager, relation.foreignKey, id)
         IN IF found = <<>> THEN Undefined ELSE found[1]
    [] type = "hasMany" -> NewCollection(Where(eager, relation.foreignKey, id))
    [] type = "belongsToMany" -> NewCollection(Where(eager, "_pivot_" \o relation.otherKey, id))

\* the name the i-th response is matched under
MatchedName(level, i) == level.pendingNames[i]

\* the models of the fetch that completed i-th at the level at path
RelatedModelsAsCompleted(path, i) == fetches[path \o <<levels[path].done[i]>>].models

\* the models matched with the i-th response of the level at path: those of the
\* relation registered under pendingNames[i]
RelatedModels(path, i) == fetches[path \o <<levels[path].pendingNames[i]>>].models

\* what matchResponses assigns to a member m of a parent Entity Set for response i
MatchInSet(path, i, m) ==
  LET relation == fetches[path \o <<MatchedName(levels[path], i)>>].relation
      id == IF relation.type = "belongsTo" THEN Get(m.attrs, relation.otherKey) ELSE IdOf(m.attrs)
  IN EagerRelated(relation.type, relation, RelatedModels(path, i), id)

\* what matchResponses assigns to a parent that is a single Entity for response i
MatchInOne(path, i) ==
  LET relation == fetches[path \o <<MatchedName(levels[path], i)>>].relation
      models == RelatedModels(path, i)
  IN IF relation.type \in {"hasOne", "belongsTo"}
     THEN (IF models # <<>> THEN models[1] ELSE NewModel(EmptyAttrs))
     ELSE NewCollection(models)

\* the relation map after the loop of matchResponses over the responses
Matched(path, old, isCollection, m) ==
  LET level == levels[path]
      idx(n) == CHOOSE i \in 1..Len(level.pendingNames) : MatchedName(level, i) = n
  IN [n \in RelNames |->
        IF \E i \in 1..Len(level.pendingNames) : MatchedName(level, i) = n
        THEN (IF isCollection THEN MatchInSet(path, idx(n), m) ELSE MatchInOne(path, idx(n)))
        ELSE old[n]]

\* ------------------------------------------------------------------ pivot helpers
\* a value that is truthy in a condition
Truthy(item) == ~(item.kind = "id" /\ item.id \in {0, Null})

\* a join row whose owner column takes the item's identifier
PivotRowKeyedByItem(pivot, item) ==
  LET data == (pivot.otherKey :> (IF item.kind = "hash" THEN Null ELSE item.id))
  IN CASE item.kind = "model" -> (pivot.foreignKey :> pivot.fkValue) @@ data
       [] item.kind = "hash" -> item.data @@ data
       [] item.kind = "id" /\ Truthy(item) -> (pivot.foreignKey :> item.id) @@ data
       [] OTHER -> data

\* the join row _handler builds for one item
PivotRow(pivot, item) ==
  LET data == (pivot.otherKey :> pivot.fkValue)
  IN CASE item.kind = "model" -> (pivot.foreignKey :> pivot.fkValue) @@ data
       [] item.kind = "hash" -> item.data @@ data
       [] item.kind = "id" /\ Truthy(item) -> (pivot.foreignKey :> item.id) @@ data
       [] OTHER -> data

\* a _handler that takes omitted ids for one item
HandlerWithoutShortcut(pivot, method, ids, options) ==
  LET items == IF ids.shape = "undefined" THEN <<[kind |-> "id", id |-> Null]>> ELSE ids.items
  IN [i \in 1..Len(items) |->
        Query(method, <<>>, Builder(pivot.joinTableName), PivotRow(pivot, items[i]))]

\* pivotHelpers._handler: the queries it issues, one per item
Handler(pivot, method, ids, options) ==
  IF ids.shape = "undefined" /\ method = "insert" THEN <<>>
  ELSE LET items == IF ids.shape = "list" THEN ids.items
                    ELSE IF ids.shape = "single" /\ Truthy(ids.items[1]) THEN ids.items
                    ELSE <<>>
           onJoinTable == IF options.transacting # NoToken
                          THEN Transacting(Builder(pivot.joinTableName), options.transacting)
                          ELSE Builder(pivot.joinTableName)
       IN [i \in 1..Len(items) |-> Query(method, <<>>, onJoinTable, PivotRow(pivot, items[i]))]

\* ------------------------------------------------------------------ query dispatcher
\* the failures a call ends with
EmptyResponse == "EmptyResponse"
DestroyWithoutConstraint ==
  "A model cannot be destroyed without a where clause or an idAttribute."
TypeError == "TypeError"
QueryError == "QueryError"

\* the Error processRelated has for a name that yields no relation
UnknownRelation(name) == name \o " is not defined on the model."

\* a promise
Promise(state, reason) == [state |-> state, error |-> <<>>, reason |-> reason]

\* Shared.query(): the object's query builder, created on first use
SharedQuery(bld) == IF bld = <<>> THEN Builder(TableName) ELSE bld[1]

\* Shared.resetQuery: delete this._builder
ResetQuery(bld) == <<>>

\* a value that passes for true in a condition: not undefined, null or 0
IsTruthy(v) == v # Null /\ v # 0

\* the Sync constructor: takes the object's builder, adds the constraints of
\* the object's relation when it has one with a truthy fkValue, and hands the
\* builder the transaction.  The columns the belongsToMany helper gathers are
\* kept in relation.columns, which Sync.select does not read.
Sync(bld, relation, options) ==
  LET query == SharedQuery(bld)
      constrained ==
        IF relation.type # "none" /\ IsTruthy(relation.fkValue)
        THEN [AddConstraints(query, relation, FALSE, <<>>) EXCEPT !.columns = query.columns]
        ELSE query
  IN IF options.transacting # NoToken THEN Transacting(constrained, options.transacting)
     ELSE constrained

\* the keys of an attribute map, in column order
KeyOrder == <<"id", "node_id">>
KeysOf(attrs) == SelectSeq(KeyOrder, LAMBDA k : k \in DOMAIN attrs)

\* query.where(hash): one equality per key
RECURSIVE WhereHash(_, _, _)
WhereHash(b, attrs, keys) ==
  IF keys = <<>> THEN b
  ELSE WhereHash(WhereEq(b, Head(keys), attrs[Head(keys)]), attrs, Tail(keys))

\* Sync.first: where(attributes).limit(1)
First(query, attributes) == Limit(WhereHash(query, attributes, KeysOf(attributes)), 1)

\* Model.isNew
IsNew(attributes) == IdOf(attributes) = Null

\* Model.format: the default passes the attributes along
Format(attrs) == attrs

\* the identity the store hands back for an insert
InsertId == NumRows + 1

\* Sync.insert
Insert(query, attributes) == Query("insert", <<>>, query, Format(attributes))

\* Sync.update: attrs is chosen from the arguments and then the model's
\* attributes are sent
Update(query, attributes, attrs, options) ==
  LET chosen == IF options.partial THEN attrs ELSE attributes
      constrained == WhereEq(query, IdAttribute, IdOf(attributes))
  IN [builder |-> constrained,
      query |-> Query("update", <<>>, constrained, Format(attributes))]

\* Sync.del that deletes whatever the query holds
DelUnguarded(query, id) ==
  LET constrained == IF id # Null THEN WhereEq(query, IdAttribute, id) ELSE query
  IN [rejected |-> FALSE, builder |-> constrained,
      queries |-> <<Query("delete", <<>>, constrained, EmptyAttrs)>>]

\* Sync.del, id being this.model.id: where(undefined) adds no predicate
Del(query, id) ==
  IF id = Null /\ query.wheres = <<>>
  THEN [rejected |-> TRUE, builder |-> query, queries |-> <<>>]
  ELSE LET constrained == IF id # Null THEN WhereEq(query, IdAttribute, id) ELSE query
       IN [rejected |-> FALSE, builder |-> constrained,
           queries |-> <<Query("delete", <<>>, constrained, EmptyAttrs)>>]

\* model.set(row) on an Entity, collection.reset(rows) on an Entity Set
Populated(obj, rows) ==
  IF obj.isCollection
  THEN [obj EXCEPT !.models = [i \in 1..Len(rows) |-> NewModel(rows[i])]]
  ELSE [obj EXCEPT !.models[1].attrs = rows[1] @@ @]

\* model.clear() on an Entity, collection.reset([]) on an Entity Set
Emptied(obj) ==
  IF obj.isCollection
  THEN [obj EXCEPT !.models = <<>>]
  ELSE [obj EXCEPT !.models[1].attrs = EmptyAttrs]

\* the callback of select that takes an empty result for a result
SelectedNeverRequired(obj, resp, options) ==
  IF Len(resp) > 0
  THEN [rejected |-> FALSE, parent |-> Populated(obj, Skim(resp))]
  ELSE [rejected |-> FALSE, parent |-> obj]

\* the callback of Sync.select on the rows resp, up to the eager load
Selected(obj, resp, options) ==
  IF Len(resp) > 0
  THEN [rejected |-> FALSE, parent |-> Populated(obj, Skim(resp))]
  ELSE IF options.require THEN [rejected |-> TRUE, parent |-> obj]
  ELSE [rejected |-> FALSE, parent |-> Emptied(obj)]

\* ------------------------------------------------------------------ inputs
PathsUpTo(d) == UNION {[1..n -> RelNames] : n \in 1..d}

\* the relation fetches a withRelated list asks for: the distinct prefixes of its paths
Prefixes(w) == UNION {{SubSeq(w[i], 1, j) : j \in 1..Len(w[i])} : i \in 1..Len(w)}

Shortest(a, b) == IF a < b THEN a ELSE b

\* the withRelated lists a call is made with
Requests ==
  UNION {{w \in [1..k -> PathsUpTo(Shortest(MaxDepth, MaxFetches + 1 - k))] :
            Cardinality(Prefixes(w)) <= MaxFetches} : k \in 0..MaxPaths}

\* the identities of the parent Entity Sets: the first rows of the table
ParentSets ==
  {[i \in 1..n |-> i] : n \in 0..Shortest(MaxParents, NumRows)}

Transactions == {NoToken} \cup Tokens

\* withRelated lists that name a relation without an accessor, as a first segment
UnknownRequests ==
  {<< <<UnknownName>> >>, << <<"many">>, <<UnknownName>> >>, << <<UnknownName, "one">> >>}

\* the attributes an object is constructed with: a stored identity, one that is
\* not stored, no identity, nothing
Subjects ==
  {("id" :> i) : i \in 1..(NumRows + 1)} \cup {("node_id" :> 1), EmptyAttrs}

\* the owners a relation accessor is called on: the stored rows, an owner
\* without attributes, and one whose identity and foreign key are 0
Owners ==
  {NodeRow(i) : i \in 1..NumRows} \cup {EmptyAttrs, ("id" :> 0) @@ ("node_id" :> 0)}

\* the tables of the Targets a relation is declared with, and the joinTableName
\* arguments of a declaration ("" for none)
TargetTables == {TableName, JoinTable}
JoinTableArgs == {"", JoinTable}

\* the options of fetch, save and destroy
FetchRelated == {<<>>, << <<"many">> >>, << <<UnknownName>> >>}
FetchOptions ==
  [transacting : Transactions, require : BOOLEAN, withRelated : FetchRelated]
SaveAttrs == {EmptyAttrs, ("node_id" :> 1)}
SaveOptions == [transacting : Transactions, partial : BOOLEAN]
DestroyOptions == [transacting : Transactions]

\* the explicit predicates a caller puts on the query
Predicates == {<<"node_id", 1>>, <<"node_id", NumRows>>}

\* the items attach / detach are called with
Items ==
  {[kind |-> "id", id |-> 0], [kind |-> "id", id |-> 2],
   [kind |-> "model", id |-> 3],
   [kind |-> "hash", data |-> ("dst_id" :> 4)],
   [kind |-> "hash", data |-> ("src_id" :> 4) @@ ("dst_id" :> 2)]}

PivotArgs ==
  {[shape |-> "undefined", items |-> <<>>]}
    \cup {[shape |-> "single", items |-> <<x>>] : x \in Items}
    \cup {[shape |-> "list", items |-> l] : l \in UNION {[1..k -> Items] : k \in 0..MaxItems}}

\* ------------------------------------------------------------------ state machine
Front(path) == SubSeq(path, 1, Len(path) - 1)
Last(path) == path[Len(path)]

None == [k \in {} |-> Null]

Init ==
  /\ call = [op |-> "none"]
  /\ parent = [isCollection |-> FALSE, models |-> <<>>, relation |-> NoRelation,
               isEager |-> FALSE]
  /\ levels = None
  /\ fetches = None
  /\ queries = <<>>
  /\ outcome = Promise("none", "")
  /\ builder = <<>>
  /\ ops = 0

\* Shared.load on an Entity (isSet false, one id) or an Entity Set; a name without
\* an accessor makes processRelated, and so load itself, throw.  The target of
\* processRelated is the Entity itself, or a new Entity of the set's type.
Load(isSet, ids, withRelated, token) ==
  /\ call.op = "none"
  /\ LET models == [i \in 1..Len(ids) |-> NewModel(Nodes[ids[i]])]
         data == [i \in 1..Len(ids) |-> models[i].attrs]
         target == IF isSet THEN EmptyAttrs ELSE models[1].attrs
         options == [transacting |-> token, withRelated |-> withRelated]
         pr == ProcessRelated(<<>>, target, data, options)
     IN /\ call' = [op |-> "load", withRelated |-> withRelated, transacting |-> token]
        /\ parent' = [isCollection |-> isSet, models |-> models, relation |-> NoRelation,
                      isEager |-> ~isSet /\ pr.isEager]
        /\ levels' = IF pr.thrown THEN None ELSE (<<>> :> pr.level)
        /\ fetches' = pr.fetches
        /\ queries' = pr.queries
        /\ outcome' = IF pr.thrown THEN Promise("thrown", TypeError) ELSE Promise("pending", "")
  /\ UNCHANGED <<builder, ops>>

\* a fetch at path settles as fulfilled: its name joins the responses of its level
Fulfil(lv, path) ==
  [lv EXCEPT ![Front(path)].done = Append(@, Last(path))]

\* the callback of EagerRelation.fetch on the rows of its select
SelectResolves(path) ==
  /\ path \in DOMAIN fetches
  /\ fetches[path].status = "pending"
  /\ LET f == fetches[path]
         resp == RunSelect(f.builder)
         filteredResp == Skim(resp)
         models == [i \in 1..Len(filteredResp) |-> NewModel(filteredResp[i])]
         got == [f EXCEPT !.resp = resp, !.models = models]
     IN IF Len(resp) > 0 /\ f.options.withRelated # <<>>
        THEN LET pr == ProcessRelated(path, EmptyAttrs, resp, f.options)
             IN /\ fetches' = [fetches EXCEPT ![path] = [got EXCEPT !.status = "nested"]]
                                @@ pr.fetches
                /\ levels' = levels @@ (path :> pr.level)
                /\ queries' = queries \o pr.queries
        ELSE /\ fetches' = [fetches EXCEPT ![path] = [got EXCEPT !.status = "resolved"]]
             /\ levels' = Fulfil(levels, path)
             /\ queries' = queries
  /\ UNCHANGED <<call, parent, outcome, builder, ops>>

\* a rejection that never reaches the promise of load
RejectSwallowed(promise, failure) == promise

\* the promise of load once a rejection has passed up to it: a pending promise is
\* rejected with the failure, a settled one keeps its state
Reject(promise, failure) ==
  IF promise.state = "pending"
  THEN [state |-> "rejected", error |-> failure, reason |-> QueryError]
  ELSE promise

\* the select of the fetch at path fails: the rejection passes through Q.all of
\* its level and through every enclosing fetch and level, up to the promise of load
SelectRejects(path) ==
  /\ path \in DOMAIN fetches
  /\ fetches[path].status = "pending"
  /\ fetches' = [q \in DOMAIN fetches |->
                   IF q = path \/ (Len(q) < Len(path) /\ SubSeq(path, 1, Len(q)) = q
                                   /\ fetches[q].status = "nested")
                   THEN [fetches[q] EXCEPT !.status = "rejected"]
                   ELSE fetches[q]]
  /\ levels' = [q \in DOMAIN levels |->
                  IF Len(q) < Len(path) /\ SubSeq(path, 1, Len(q)) = q
                     /\ levels[q].status = "waiting"
                  THEN [levels[q] EXCEPT !.status = "rejected"]
                  ELSE levels[q]]
  /\ outcome' = Reject(outcome, path)
  /\ UNCHANGED <<call, parent, queries, builder, ops>>

\* a join that lets the level through once any one fetch is fulfilled
AnyFulfilled(path) ==
  \E i \in 1..Len(levels[path].pendingNames) :
    fetches[path \o <<levels[path].pendingNames[i]>>].status = "resolved"

\* a join that lets the level through once the fetch registered first is fulfilled
FirstFulfilled(path) ==
  IF levels[path].pendingNames = <<>> THEN TRUE
  ELSE fetches[path \o <<levels[path].pendingNames[1]>>].status = "resolved"

\* Q.all(pendingDeferred) of the level at path is fulfilled: every fetch is
AllFulfilled(path) ==
  \A i \in 1..Len(levels[path].pendingNames) :
    fetches[path \o <<levels[path].pendingNames[i]>>].status = "resolved"

\* Q.all of the level at path is fulfilled and matchResponses runs
MatchResponses(path) ==
  /\ path \in DOMAIN levels
  /\ levels[path].status = "waiting"
  /\ AllFulfilled(path)
  /\ IF path = <<>>
     THEN /\ parent' = [parent EXCEPT !.models =
                          [i \in 1..Len(parent.models) |->
                             [parent.models[i] EXCEPT !.relations =
                                Matched(path, @, parent.isCollection, parent.models[i])]]]
          /\ outcome' = Promise("resolved", "")
          /\ levels' = [levels EXCEPT ![path].status = "resolved"]
          /\ UNCHANGED fetches
     ELSE LET f == fetches[path]
              onModels == [f EXCEPT !.models =
                             [i \in 1..Len(f.models) |->
                                [f.models[i] EXCEPT !.relations =
                                   Matched(path, @, TRUE, f.models[i])]]]
              onTarget == [f EXCEPT !.relations = Matched(path, @, FALSE, f)]
              after == IF IsMulti(f.relation.type) THEN onModels ELSE onTarget
          IN /\ fetches' = [fetches EXCEPT ![path] = [after EXCEPT !.status = "resolved"]]
             /\ levels' = Fulfil([levels EXCEPT ![path].status = "resolved"], path)
             /\ UNCHANGED <<parent, outcome>>
  /\ UNCHANGED <<call, queries, builder, ops>>

\* pivotHelpers.attach on owner.peers()
Attach(owner, ids, token) ==
  /\ call.op = "none"
  /\ call' = [op |-> "attach", owner |-> owner, ids |-> ids, transacting |-> token]
  /\ queries' = Handler(Accessor("peers", Nodes[owner], FALSE), "insert", ids,
                        [transacting |-> token])
  /\ outcome' = Promise("resolved", "")
  /\ UNCHANGED <<parent, levels, fetches, builder, ops>>

\* pivotHelpers.detach on owner.peers()
Detach(owner, ids, token) ==
  /\ call.op = "none"
  /\ call' = [op |-> "detach", owner |-> owner, ids |-> ids, transacting |-> token]
  /\ queries' = Handler(Accessor("peers", Nodes[owner], FALSE), "delete", ids,
                        [transacting |-> token])
  /\ outcome' = Promise("resolved", "")
  /\ UNCHANGED <<parent, levels, fetches, builder, ops>>

\* a relation accessor of the given kind declared with the constructor Target,
\* whose tableName is table, and called on a stored Entity
Relate(type, Target, table, joinTableName) ==
  /\ call.op = "none"
  /\ call' = [op |-> "relate", type |-> type, Target |-> Target, table |-> table,
              joinTableName |-> joinTableName]
  /\ IF RelatesToThrows(Target, type)
     THEN /\ outcome' = Promise("thrown", RelationTypeMismatch(type))
          /\ UNCHANGED parent
     ELSE /\ outcome' = Promise("returned", "")
          /\ parent' = [RelationTarget(Target, type) EXCEPT
                          !.relation = Declared(type, Nodes[NumRows], FALSE, table,
                                                joinTableName)]
  /\ UNCHANGED <<levels, fetches, queries, builder, ops>>

\* owner[name]() on a newly constructed Entity: the target carries the relation
Access(name, owner) ==
  /\ call.op = "none"
  /\ call' = [op |-> "access", name |-> name, owner |-> owner, loaded |-> FALSE]
  /\ parent' = [RelationTarget("Model", Accessor(name, owner, FALSE).type) EXCEPT
                  !.relation = Accessor(name, owner, FALSE)]
  /\ outcome' = Promise("returned", "")
  /\ UNCHANGED <<levels, fetches, queries, builder, ops>>

\* entity[name]() on the Entity a load was called on, once the load has ended
AccessLoaded(name) ==
  /\ call.op = "load"
  /\ ~parent.isCollection
  /\ outcome.state \in {"resolved", "rejected", "thrown"}
  /\ call' = [op |-> "access", name |-> name, owner |-> parent.models[1].attrs,
              loaded |-> TRUE]
  /\ parent' = [RelationTarget("Model", Accessor(name, parent.models[1].attrs,
                                                 parent.isEager).type) EXCEPT
                  !.relation = Accessor(name, parent.models[1].attrs, parent.isEager)]
  /\ outcome' = Promise("returned", "")
  /\ UNCHANGED <<levels, fetches, queries, builder, ops>>

\* new Model(attrs) or new Collection(): the object the query operations are made on
Forge(isSet, attrs) ==
  /\ call.op = "none"
  /\ call' = [op |-> "forge"]
  /\ parent' = [isCollection |-> isSet,
                models |-> IF isSet THEN <<>> ELSE <<NewModel(attrs)>>,
                relation |-> NoRelation,
                isEager |-> FALSE]
  /\ UNCHANGED <<levels, fetches, queries, outcome, builder, ops>>

\* the object exists and no operation on it is under way; the operations are
\* made on a constructed object or on the relation target of a new owner
Idle ==
  /\ call.op \in {"forge", "access", "query", "fetch", "save", "destroy"}
  /\ call.op = "access" => ~call.loaded
  /\ outcome.state # "pending"
  /\ ops < (IF parent.relation.type = "none" THEN MaxOps ELSE MaxTargetOps)

\* the arguments of the operation and, for the record, the builder and the
\* length of the query log it started from
Started(op, attrs, options) ==
  [op |-> op, attrs |-> attrs, options |-> options, before |-> builder, from |-> Len(queries)]

\* Shared.query('where', col, '=', val) on the object
QueryWhere(col, val) ==
  /\ Idle
  /\ call' = Started("query", EmptyAttrs, [transacting |-> NoToken])
  /\ builder' = <<WhereEq(SharedQuery(builder), col, val)>>
  /\ outcome' = Promise("none", "")
  /\ levels' = None
  /\ fetches' = None
  /\ ops' = ops + 1
  /\ UNCHANGED <<parent, queries>>

\* Model.fetch (Sync.first) on an Entity, Collection.fetch (Sync.select) on an
\* Entity Set; relations are asked for on an Entity that holds none yet
Fetch(options) ==
  /\ Idle
  /\ (options.withRelated # <<>> /\ ~parent.isCollection)
       => parent.models[1].relations = NoRelations
  /\ LET query == Sync(builder, parent.relation, options)
         select == IF parent.isCollection THEN query
                   ELSE First(query, parent.models[1].attrs)
     IN /\ builder' = <<select>>
        /\ queries' = Append(queries, Query("select", <<>>, select, EmptyAttrs))
  /\ call' = Started("fetch", EmptyAttrs, options)
  /\ outcome' = Promise("pending", "")
  /\ levels' = None
  /\ fetches' = None
  /\ ops' = ops + 1
  /\ UNCHANGED parent

\* the callbacks of Sync.select on the rows of the query
FetchResolves ==
  /\ call.op = "fetch"
  /\ outcome.state = "pending"
  /\ <<>> \notin DOMAIN levels
  /\ LET resp == RunSelect(builder[1])
         selected == Selected(parent, resp, call.options)
         target == IF parent.isCollection THEN EmptyAttrs
                   ELSE selected.parent.models[1].attrs
         pr == ProcessRelated(<<>>, target, Skim(resp), call.options)
         ran == Len(resp) > 0 /\ call.options.withRelated # <<>>
     IN /\ builder' = ResetQuery(builder)
        /\ parent' = [selected.parent EXCEPT
                        !.isEager = IF ran /\ ~parent.isCollection THEN pr.isEager ELSE @]
        /\ IF Len(resp) > 0 /\ call.options.withRelated # <<>> /\ ~pr.thrown
           THEN /\ levels' = (<<>> :> pr.level)
                /\ fetches' = pr.fetches
                /\ queries' = queries \o pr.queries
                /\ UNCHANGED outcome
           ELSE /\ outcome' = IF selected.rejected THEN Promise("rejected", EmptyResponse)
                              ELSE IF Len(resp) > 0 /\ call.options.withRelated # <<>>
                              THEN Promise("rejected", TypeError)
                              ELSE Promise("resolved", "")
                /\ UNCHANGED <<levels, fetches, queries>>
  /\ UNCHANGED <<call, ops>>

\* Model.save on an Entity: set the attributes, then insert or update
Save(attrs, options) ==
  /\ Idle
  /\ ~parent.isCollection
  /\ LET attributes == attrs @@ parent.models[1].attrs
         query == Sync(builder, parent.relation, options)
         method == IF IsNew(attributes) THEN "insert" ELSE "update"
         update == Update(query, attributes, attrs, options)
     IN /\ parent' = [parent EXCEPT !.models[1].attrs = attributes]
        /\ builder' = IF method = "insert" THEN <<query>> ELSE <<update.builder>>
        /\ queries' = Append(queries, IF method = "insert" THEN Insert(query, attributes)
                                      ELSE update.query)
  /\ call' = Started("save", attrs, options)
  /\ outcome' = Promise("pending", "")
  /\ levels' = None
  /\ fetches' = None
  /\ ops' = ops + 1

\* the callback of save on the answer of the insert or update
SaveResolves ==
  /\ call.op = "save"
  /\ outcome.state = "pending"
  /\ builder' = ResetQuery(builder)
  /\ parent' = IF queries[Len(queries)].op = "insert"
                THEN [parent EXCEPT !.models[1].attrs = (IdAttribute :> InsertId) @@ @]
                ELSE parent
  /\ outcome' = Promise("resolved", "")
  /\ UNCHANGED <<call, levels, fetches, queries, ops>>

\* Model.destroy on an Entity, sync(collection).del() on an Entity Set
Destroy(options) ==
  /\ Idle
  /\ LET id == IF parent.isCollection THEN Null ELSE IdOf(parent.models[1].attrs)
         del == Del(Sync(builder, parent.relation, options), id)
     IN /\ builder' = <<del.builder>>
        /\ queries' = queries \o del.queries
        /\ outcome' = IF del.rejected THEN Promise("rejected", DestroyWithoutConstraint)
                      ELSE Promise("pending", "")
  /\ call' = Started("destroy", EmptyAttrs, options)
  /\ levels' = None
  /\ fetches' = None
  /\ ops' = ops + 1
  /\ UNCHANGED parent

\* the callback of destroy on the answer of the delete
DestroyResolves ==
  /\ call.op = "destroy"
  /\ outcome.state = "pending"
  /\ outcome' = Promise("resolved", "")
  /\ UNCHANGED <<call, parent, levels, fetches, queries, builder, ops>>

\* the query of a fetch, save or destroy fails: no callback runs
QueryRejects ==
  /\ call.op \in {"fetch", "save", "destroy"}
  /\ outcome.state = "pending"
  /\ <<>> \notin DOMAIN levels
  /\ outcome' = Promise("rejected", QueryError)
  /\ UNCHANGED <<call, parent, levels, fetches, queries, builder, ops>>

\* the first call of a behaviour: a load, an attach, a detach, a relation
\* accessor, or the construction of an object for query operations
Call ==
  /\ call.op = "none"
  /\ \/ \E ids \in ParentSets, w \in Requests \cup UnknownRequests, t \in Transactions :
          Load(TRUE, ids, w, t)
     \/ \E id \in 1..NumRows, w \in Requests \cup UnknownRequests, t \in Transactions :
          Load(FALSE, <<id>>, w, t)
     \/ \E id \in 1..NumRows, ids \in PivotArgs, t \in Transactions : Attach(id, ids, t)
     \/ \E id \in 1..NumRows, ids \in PivotArgs, t \in Transactions : Detach(id, ids, t)
     \/ \E type \in {"hasOne", "hasMany", "belongsTo", "belongsToMany"},
           Target \in TargetTypes, table \in TargetTables, joinTableName \in JoinTableArgs :
          Relate(type, Target, table, joinTableName)
     \/ \E name \in RelNames, owner \in Owners : Access(name, owner)
     \/ \E attrs \in Subjects : Forge(FALSE, attrs)
     \/ Forge(TRUE, EmptyAttrs)

\* a query operation on the object
Operate ==
  /\ Idle
  /\ \/ \E pr \in Predicates : QueryWhere(pr[1], pr[2])
     \/ \E options \in FetchOptions : Fetch(options)
     \/ \E attrs \in SaveAttrs, options \in SaveOptions : Save(attrs, options)
     \/ \E options \in DestroyOptions : Destroy(options)

Next ==
  \/ Call
  \/ \E name \in RelNames : AccessLoaded(name)
  \/ Operate
  \/ FetchResolves
  \/ SaveResolves
  \/ DestroyResolves
  \/ QueryRejects
  \/ \E path \in DOMAIN fetches : SelectResolves(path)
  \/ \E path \in DOMAIN fetches : SelectRejects(path)
  \/ \E path \in DOMAIN levels : MatchResponses(path)

Spec == Init /\ [][Next]_vars

\* ------------------------------------------------------------------ properties
\* a load whose relation names all have an accessor, so that it was dispatched
IsLoad == call.op = "load" /\ outcome.state # "thrown"
Succeeded == IsLoad /\ outcome.state = "resolved"

\* the relation names a load asks for at its top level
Requested(name) == \E i \in 1..Len(call.withRelated) : call.withRelated[i][1] = name

\* the positions in the log of the selects issued for the relation at path
SelectsFor(path) ==
  {i \in 1..Len(queries) : queries[i].op = "select" /\ queries[i].path = path}

ParentIds == [i \in 1..Len(parent.models) |-> parent.models[i].attrs["id"]]

\* the Entities a relation value holds
Children(value) ==
  CASE value.kind = "model" -> {value}
    [] value.kind = "collection" -> {value.models[i] : i \in 1..Len(value.models)}
    [] OTHER -> {}

\* C1: a load of the HasMany relation on a parent Entity Set of any size issues
\* exactly one select for it, constrained by node_id IN the parents' identities
NoNPlusOne ==
  (IsLoad /\ parent.isCollection /\ Requested("many")) =>
    /\ Cardinality(SelectsFor(<<"many">>)) = 1
    /\ \A i \in SelectsFor(<<"many">>) :
         /\ queries[i].table = "nodes"
         /\ queries[i].joins = <<>>
         /\ queries[i].wheres = <<[op |-> "in", col |-> "node_id", vals |-> ParentIds]>>

NoNPlusOneWitness ==
  /\ Succeeded
  /\ parent.isCollection
  /\ Len(parent.models) >= 3
  /\ Requested("many")
  /\ Cardinality(SelectsFor(<<"many">>)) = 1

\* the key of a child a parent is matched on, and the parent's match key
ChildKey(name, child) ==
  CASE name \in {"one", "many"} -> Get(child.attrs, "node_id")
    [] name = "owner" -> Get(child.attrs, "id")
    [] name = "peers" -> Get(child.attrs, "_pivot_src_id")

ParentKey(name, m) ==
  IF name = "owner" THEN Get(m.attrs, "node_id") ELSE Get(m.attrs, "id")

\* the child is, in the store, related to the parent by the relation
RelatedInStore(name, m, child) ==
  LET c == Get(child.attrs, "id")
      p == Get(m.attrs, "id")
  IN /\ c \in 1..NumRows
     /\ p \in 1..NumRows
     /\ CASE name \in {"one", "many"} -> Nodes[c]["node_id"] = p
          [] name = "owner" -> Nodes[p]["node_id"] = c
          [] name = "peers" -> <<p, c>> \in LinkPairs

\* the members of every parent Entity Set: of the set load was called on and of
\* the Entity Sets fetched for a multi-valued relation
SetMembers ==
  (IF IsLoad /\ parent.isCollection
   THEN {parent.models[i] : i \in 1..Len(parent.models)} ELSE {})
  \cup UNION {{fetches[p].models[i] : i \in 1..Len(fetches[p].models)} :
                p \in {q \in DOMAIN fetches : IsMulti(fetches[q].relation.type)}}

\* C2: in a parent Entity Set a parent is only ever assigned children whose key
\* equals its match key and that are its children in the store, for every kind
InjectiveMatching ==
  \A m \in SetMembers : \A name \in RelNames : \A child \in Children(m.relations[name]) :
    /\ ParentKey(name, m) # Null
    /\ ChildKey(name, child) = ParentKey(name, m)
    /\ RelatedInStore(name, m, child)

InjectiveMatchingWitness ==
  /\ Succeeded
  /\ parent.isCollection
  /\ Len(parent.models) >= 2
  /\ \E name \in RelNames :
       /\ Children(parent.models[1].relations[name]) # {}
       /\ Children(parent.models[2].relations[name]) # {}
       /\ Children(parent.models[1].relations[name])
            \cap Children(parent.models[2].relations[name]) = {}

\* C3: after a load of a HasOne or BelongsTo relation every parent, a single
\* Entity or a member of an Entity Set, holds an Entity under the relation's name
FallbackEntity ==
  Succeeded =>
    \A i \in 1..Len(parent.models) : \A name \in {"one", "owner"} :
      Requested(name) => parent.models[i].relations[name].kind = "model"

\* a load of the single path a.b.c on one parent
IsChain3 ==
  /\ IsLoad
  /\ Len(parent.models) = 1
  /\ Len(call.withRelated) = 1
  /\ Len(call.withRelated[1]) = 3

ChainLevel(k) == SubSeq(call.withRelated[1], 1, k)

\* the identities a query of level k of the chain is to be constrained by
PreviousIds(k) ==
  IF k = 1 THEN ParentIds
  ELSE [j \in 1..Len(fetches[ChainLevel(k - 1)].resp) |-> fetches[ChainLevel(k - 1)].resp[j]["id"]]

ConstrainedByPrevious(k) ==
  \A i \in SelectsFor(ChainLevel(k)) :
    /\ Len(queries[i].wheres) = 1
    /\ queries[i].wheres[1].op = "in"
    /\ queries[i].wheres[1].vals = PreviousIds(k)

\* C4 as stated: once a.b.c is loaded on one parent, three queries were issued,
\* one per level, each constrained by the identities of the previous level's rows
ChainIssuesThree ==
  (IsChain3 /\ Succeeded) =>
    /\ Len(queries) = 3
    /\ \A k \in 1..3 : Cardinality(SelectsFor(ChainLevel(k))) = 1 /\ ConstrainedByPrevious(k)

\* C4 amended: level a is queried once, a deeper level once exactly when the
\* level above it returned a row and otherwise not at all, nothing else is
\* queried, and each query is constrained by the identities of the rows of the
\* level above
ChainIssuesOnePerReachedLevel ==
  IsChain3 =>
    /\ \A i \in 1..Len(queries) :
         queries[i].op = "select" /\ \E k \in 1..3 : queries[i].path = ChainLevel(k)
    /\ \A k \in 1..3 :
         LET reached == \/ k = 1
                        \/ /\ ChainLevel(k - 1) \in DOMAIN fetches
                           /\ fetches[ChainLevel(k - 1)].resp # <<>>
         IN /\ Cardinality(SelectsFor(ChainLevel(k))) = IF reached THEN 1 ELSE 0
            /\ ConstrainedByPrevious(k)

ChainWitness ==
  /\ IsChain3
  /\ Succeeded
  /\ Len(queries) = 3
  /\ fetches[ChainLevel(3)].resp # <<>>

\* a load of ["a.b", "a.c"] with b and c different
IsMerge ==
  /\ IsLoad
  /\ Len(call.withRelated) = 2
  /\ Len(call.withRelated[1]) = 2
  /\ Len(call.withRelated[2]) = 2
  /\ call.withRelated[1][1] = call.withRelated[2][1]
  /\ call.withRelated[1][2] # call.withRelated[2][2]

\* the children fetched for the relation and assigned to a parent of the load
FetchedChildren(name) ==
  UNION {{c \in Children(parent.models[i].relations[name]) : c.attrs # EmptyAttrs} :
           i \in 1..Len(parent.models)}

\* C5: a load of ["a.b", "a.c"] issues one query for a, and every child fetched
\* for a carries both b and c
SuffixMerge ==
  (IsMerge /\ Succeeded) =>
    /\ Cardinality(SelectsFor(<<call.withRelated[1][1]>>)) = 1
    /\ \A child \in FetchedChildren(call.withRelated[1][1]) :
         /\ child.relations[call.withRelated[1][2]] # Absent
         /\ child.relations[call.withRelated[2][2]] # Absent

\* C6: after a load of the path a.b every child fetched for a and assigned to a
\* parent has b in its relation map, whatever the kind of a
NestedOnChildren ==
  (Succeeded /\ Len(call.withRelated) = 1 /\ Len(call.withRelated[1]) = 2) =>
    \A child \in FetchedChildren(call.withRelated[1][1]) :
      child.relations[call.withRelated[1][2]] # Absent

\* what one load yields when its queries are answered one after the other, in
\* the order the relations were first named: the members with their relation maps
RECURSIVE LoadedInOrder(_, _, _, _)
LoadedInOrder(isCollection, members, parentResponse, withRelated) ==
  LET handled == Handled(withRelated)
      relation(n) == Accessor(n, EmptyAttrs, TRUE)
      rows(n) == RunSelect(FetchBuilder(relation(n), parentResponse,
                             [transacting |-> NoToken, withRelated |-> <<>>]))
      fresh(n) == [i \in 1..Len(rows(n)) |-> NewModel(Skim(rows(n))[i])]
      children(n) ==
        IF rows(n) # <<>> /\ handled.subRelated[n] # <<>> /\ IsMulti(relation(n).type)
        THEN LoadedInOrder(TRUE, fresh(n), rows(n), handled.subRelated[n])
        ELSE fresh(n)
      value(n, m) ==
        IF isCollection
        THEN EagerRelated(relation(n).type, relation(n), children(n),
                          IF relation(n).type = "belongsTo"
                          THEN Get(m.attrs, relation(n).otherKey) ELSE IdOf(m.attrs))
        ELSE IF IsMulti(relation(n).type) THEN NewCollection(children(n))
        ELSE IF children(n) # <<>> THEN children(n)[1]
        ELSE NewModel(EmptyAttrs)
  IN [i \in 1..Len(members) |->
        [members[i] EXCEPT !.relations =
           [n \in RelNames |-> IF InSeq(n, handled.names) THEN value(n, members[i]) ELSE @[n]]]]

\* C7: whatever the order in which the fetches of a level complete, a load that
\* succeeds leaves the parents with the relation maps of the in-order load
DeterministicMatching ==
  Succeeded =>
    parent.models =
      LoadedInOrder(parent.isCollection,
                    [i \in 1..Len(parent.models) |-> NewModel(parent.models[i].attrs)],
                    [i \in 1..Len(parent.models) |-> parent.models[i].attrs],
                    call.withRelated)

\* two sibling fetches completed in the reverse of their registration order and
\* brought different rows
DeterministicMatchingWitness ==
  /\ Succeeded
  /\ Len(levels[<<>>].pendingNames) = 2
  /\ levels[<<>>].done = <<levels[<<>>].pendingNames[2], levels[<<>>].pendingNames[1]>>
  /\ fetches[<<levels[<<>>].pendingNames[1]>>].resp
       # fetches[<<levels[<<>>].pendingNames[2]>>].resp

\* the relation map the matching of the level at path writes to
AssignedAt(path, name) ==
  IF path = <<>>
  THEN \E i \in 1..Len(parent.models) : parent.models[i].relations[name] # Absent
  ELSE \/ fetches[path].relations[name] # Absent
       \/ \E i \in 1..Len(fetches[path].models) :
            fetches[path].models[i].relations[name] # Absent

\* C8: at every level no parent has a relation of that level assigned while a
\* fetch dispatched at that level has not completed successfully
Barrier ==
  \A path \in DOMAIN levels :
    (\E i \in 1..Len(levels[path].pendingNames) : AssignedAt(path, levels[path].pendingNames[i]))
      => \A i \in 1..Len(levels[path].pendingNames) :
           fetches[path \o <<levels[path].pendingNames[i]>>].status = "resolved"

BarrierWitness ==
  \E path \in DOMAIN levels :
    /\ Len(levels[path].pendingNames) = 2
    /\ levels[path].status = "resolved"
    /\ AssignedAt(path, levels[path].pendingNames[1])
    /\ AssignedAt(path, levels[path].pendingNames[2])
    /\ \E other \in DOMAIN levels : levels[other].status = "waiting"

\* the fetches whose own select failed
Failed == {p \in DOMAIN fetches : fetches[p].status = "rejected" /\ fetches[p].resp = <<>>
                                   /\ p \notin DOMAIN levels}

\* C9: once a relation fetch of a load has failed, at whatever level, the load
\* is a failed result carrying the failure of a fetch that failed
FailFast ==
  (IsLoad /\ Failed # {}) => (outcome.state = "rejected" /\ outcome.error \in Failed)

FailFastWitness ==
  /\ IsLoad
  /\ outcome.state = "rejected"
  /\ Len(outcome.error) >= 2
  /\ \E p \in DOMAIN fetches : fetches[p].status = "resolved"

\* C10: with a transaction token in the options of the call, every query of the
\* load and every insert or delete of attach / detach is executed with the token
TransactionThreaded ==
  (call.op \in {"load", "attach", "detach"} /\ call.transacting # NoToken) =>
    \A i \in 1..Len(queries) : queries[i].transacting = call.transacting

\* ------------------------------------------------------------------ the query dispatcher
\* a fetch, save or destroy on the object has ended, in success or in failure
Ended ==
  /\ call.op \in {"fetch", "save", "destroy"}
  /\ outcome.state \in {"resolved", "rejected"}

\* the queries the operation under way has issued
Issued == SubSeq(queries, call.from + 1, Len(queries))

\* C11: once a fetch, save or destroy on an object has ended, whether it
\* succeeded or failed, the object holds no query builder any more
SingleUseBuilder == Ended => builder = <<>>

\* the identity of the object a destroy is called on, and the predicates its
\* query holds when the delete is built: those put on it before the call and
\* those of the relation the object is the target of
TargetId == IF parent.isCollection THEN Null ELSE IdOf(parent.models[1].attrs)
HeldWheres == Sync(call.before, parent.relation, [transacting |-> NoToken]).wheres

\* C12: a delete on a target without identity whose query holds no predicate
\* fails with DestroyWithoutConstraint and issues no query; otherwise exactly one
\* delete is issued, constrained by the predicates already on the query and,
\* when the target has an identity, by the equality on its identity
DeleteGuard ==
  call.op = "destroy" =>
    IF TargetId = Null /\ HeldWheres = <<>>
    THEN outcome = Promise("rejected", DestroyWithoutConstraint) /\ Issued = <<>>
    ELSE /\ outcome.reason # DestroyWithoutConstraint
         /\ Len(Issued) = 1
         /\ Issued[1].op = "delete"
         /\ Issued[1].wheres =
              IF TargetId # Null
              THEN Append(HeldWheres, [op |-> "=", col |-> IdAttribute, vals |-> <<TargetId>>])
              ELSE HeldWheres

DeleteGuardWitness ==
  /\ call.op = "destroy"
  /\ parent.isCollection
  /\ call.before = <<>>
  /\ outcome = Promise("rejected", DestroyWithoutConstraint)
  /\ Issued = <<>>

\* ------------------------------------------------------------------ attach and detach
\* C13: a detach with ids omitted issues a delete on the join table constrained
\* by the owner's bound key alone
DetachAll ==
  (call.op = "detach" /\ call.ids.shape = "undefined") =>
    \E i \in 1..Len(queries) :
      /\ queries[i].op = "delete"
      /\ queries[i].table = JoinTable
      /\ queries[i].data = ("src_id" :> call.owner)

\* C14: the join row attach builds for a child Entity holds the owner's bound
\* key and, as the target key, the identity of the child
AttachEntity ==
  call.op = "attach" =>
    \A i \in 1..Len(call.ids.items) :
      call.ids.items[i].kind = "model" =>
        queries[i].data = ("src_id" :> call.owner) @@ ("dst_id" :> call.ids.items[i].id)

\* the item supplies the owner's column itself
Overrides(item) == item.kind = "hash" /\ "src_id" \in DOMAIN item.data

\* C15 as stated: attach issues one insert per item and nothing else, and every
\* row carries the owner's bound key
AttachOnePerItem ==
  call.op = "attach" =>
    /\ Len(queries) = Len(call.ids.items)
    /\ \A i \in 1..Len(queries) :
         /\ queries[i].op = "insert"
         /\ Get(queries[i].data, "src_id") = call.owner

\* C15 amended: attach issues inserts on the join table only: one per item of a
\* list, one for a single truthy item and none for a single falsy one; a bare
\* identifier gives the row {owner key, target key}; every row carries the
\* owner's bound key unless the item is a hash that supplies that column itself
AttachOnePerListedItem ==
  call.op = "attach" =>
    /\ Len(queries) = IF call.ids.shape = "single" /\ ~Truthy(call.ids.items[1])
                      THEN 0 ELSE Len(call.ids.items)
    /\ \A i \in 1..Len(queries) :
         /\ queries[i].op = "insert"
         /\ queries[i].table = JoinTable
         /\ Get(queries[i].data, "src_id") =
              IF Overrides(call.ids.items[i]) THEN call.ids.items[i].data["src_id"]
              ELSE call.owner
         /\ (call.ids.items[i].kind = "id" /\ Truthy(call.ids.items[i])) =>
              queries[i].data = ("src_id" :> call.owner) @@ ("dst_id" :> call.ids.items[i].id)

AttachWitness ==
  /\ call.op = "attach"
  /\ call.ids.shape = "list"
  /\ Len(call.ids.items) = 2
  /\ Len(queries) = 2
  /\ call.ids.items[1] = [kind |-> "id", id |-> 2]
  /\ queries[1].data = ("src_id" :> call.owner) @@ ("dst_id" :> 2)
  /\ queries[2].op = "insert"

\* C16: an attach with ids omitted resolves and issues no query at all
AttachNothing ==
  (call.op = "attach" /\ call.ids.shape = "undefined") =>
    (outcome.state = "resolved" /\ queries = <<>>)

AttachNothingWitness ==
  /\ call.op = "attach"
  /\ call.ids.shape = "undefined"
  /\ outcome.state = "resolved"
  /\ queries = <<>>

\* ------------------------------------------------------------------ update, accessors, fetch
\* C17: an update sends the explicit attributes alone when options.partial is
\* set and the full attribute map otherwise, constrained by the identity
PartialUpdate ==
  (call.op = "save" /\ Issued[1].op = "update") =>
    /\ Issued[1].data = IF call.options.partial THEN call.attrs ELSE parent.models[1].attrs
    /\ Issued[1].wheres[Len(Issued[1].wheres)] =
         [op |-> "=", col |-> IdAttribute, vals |-> <<TargetId>>]

\* C18: hasOne and belongsTo declared with an Entity Set type fail with
\* RelationTypeMismatch and return no relation target
RelationTypeGuard ==
  (call.op = "relate" /\ ~IsMulti(call.type) /\ call.Target = "Collection") =>
    outcome = Promise("thrown", RelationTypeMismatch(call.type))

\* the call names, as a first segment, a relation without an accessor, and has
\* come to the point of resolving the names: a load at once, a fetch when its
\* select has returned rows
NamesUnknown ==
  \/ /\ call.op = "load"
     /\ \E i \in 1..Len(call.withRelated) : ~HasAccessor(call.withRelated[i][1])
  \/ /\ call.op = "fetch"
     /\ \E i \in 1..Len(call.options.withRelated) : ~HasAccessor(call.options.withRelated[i][1])
     /\ builder = <<>>
     /\ RunSelect(Issued[1]) # <<>>

\* C19: a load or fetch that names a relation without an accessor ends as a
\* failed result carrying UnknownRelation, and no relation query was issued
UnknownRelationFails ==
  NamesUnknown =>
    /\ outcome = Promise("rejected", UnknownRelation(UnknownName))
    /\ \A i \in 1..Len(queries) :
         (call.op = "load" \/ i > call.from) => queries[i].path = <<>>

\* the select of the fetch under way finds no row
FetchedNothing == call.op = "fetch" /\ RunSelect(Issued[1]) = <<>>

\* C20: a fetch whose select returned no row fails with EmptyResponse when
\* options.require is set; otherwise it succeeds and leaves the Entity without
\* attributes, the Entity Set without members
EmptyFetch ==
  (FetchedNothing /\ outcome.state # "pending" /\ outcome.reason # QueryError) =>
    IF call.options.require
    THEN outcome = Promise("rejected", EmptyResponse)
    ELSE /\ outcome = Promise("resolved", "")
         /\ IF parent.isCollection THEN parent.models = <<>>
            ELSE Len(parent.models) = 1 /\ parent.models[1].attrs = EmptyAttrs

EmptyFetchWitness ==
  /\ FetchedNothing
  /\ outcome = Promise("resolved", "")
  /\ ~parent.isCollection
  /\ Issued[1].wheres # <<>>
  /\ parent.models[1].attrs = EmptyAttrs

EmptyFetchRequiredWitness ==
  /\ FetchedNothing
  /\ parent.isCollection
  /\ outcome = Promise("rejected", EmptyResponse)

\* ------------------------------------------------------------------ relation defaults
\* an accessor call that returned its target, for a declaration without keys
Declares(type) == call.op = "relate" /\ outcome.state = "returned" /\ call.type = type

\* C21 as stated: belongsToMany declared without a join table names the join
\* table by the singularized owner and target table names, sorted and joined
\* by "_"; hasOne and hasMany take the singularized owner table name plus "_id"
\* for foreign key
JoinTableSingularized ==
  /\ (Declares("belongsToMany") /\ call.joinTableName = "") =>
        parent.relation.joinTableName =
          IF call.table = "links" THEN "link_node" ELSE "node_node"
  /\ (Declares("hasOne") \/ Declares("hasMany")) => parent.relation.foreignKey = "node_id"

\* C21 amended: the join table is named by the two table names as they are,
\* sorted and joined by "_", and a joinTableName argument is taken as given;
\* hasOne and hasMany take the singularized owner table name plus "_id"
JoinTableDefault ==
  /\ Declares("belongsToMany") =>
        parent.relation.joinTableName =
          IF call.joinTableName # "" THEN call.joinTableName
          ELSE IF call.table = "links" THEN "links_nodes" ELSE "nodes_nodes"
  /\ (Declares("hasOne") \/ Declares("hasMany")) => parent.relation.foreignKey = "node_id"

\* the owner's table sorts after the target's
JoinTableWitness ==
  /\ Declares("belongsToMany")
  /\ call.joinTableName = ""
  /\ call.table = "links"
  /\ parent.relation.joinTableName = "links_nodes"

\* ------------------------------------------------------------------ nested levels
\* the positions in the log of the queries of a level below the first
NestedQueries == {i \in 1..Len(queries) : Len(queries[i].path) >= 2}

\* C22: the query of a nested level is in the log only once the fetch of the
\* relation above it has returned rows, and its IN-constraint lists the
\* identities of exactly those rows, in their order
NestedAfterParent ==
  IsLoad =>
    \A i \in NestedQueries :
      LET up == Front(queries[i].path)
      IN /\ up \in DOMAIN fetches
         /\ fetches[up].status # "pending"
         /\ fetches[up].resp # <<>>
         /\ Len(queries[i].wheres) = 1
         /\ queries[i].wheres[1].op = "in"
         /\ queries[i].wheres[1].vals =
              [j \in 1..Len(fetches[up].resp) |-> fetches[up].resp[j]["id"]]

\* a nested query built from several returned rows while a fetch of the first
\* level is still out
NestedAfterParentWitness ==
  /\ IsLoad
  /\ \E i \in NestedQueries : Len(fetches[Front(queries[i].path)].resp) >= 2
  /\ \E p \in DOMAIN fetches : Len(p) = 1 /\ fetches[p].status = "pending"

\* ------------------------------------------------------------------ matching, end to end
\* the identities of the Entities a relation entry holds, in order
ChildIds(value) ==
  IF value.kind = "collection"
  THEN [i \in 1..Len(value.models) |-> Get(value.models[i].attrs, "id")]
  ELSE <<>>

\* the identities of the rows the store relates to the parent identity p by a
\* multi-valued relation
StoredChildren(name, p) ==
  {c \in 1..NumRows : IF name = "many" THEN Nodes[c]["node_id"] = p ELSE <<p, c>> \in LinkPairs}

\* C23: after a load of the HasMany or BelongsToMany relation on a parent Entity
\* Set every parent holds an Entity Set under the relation's name, with each of
\* its children in the store exactly once and nothing else: an empty Entity Set
\* when it has none
CompleteMatching ==
  (Succeeded /\ parent.isCollection) =>
    \A name \in {"many", "peers"} : Requested(name) =>
      \A i \in 1..Len(parent.models) :
        LET value == parent.models[i].relations[name]
            ids == ChildIds(value)
        IN /\ value.kind = "collection"
           /\ {ids[j] : j \in 1..Len(ids)} = StoredChildren(name, parent.models[i].attrs["id"])
           /\ Len(ids) = Cardinality(StoredChildren(name, parent.models[i].attrs["id"]))

\* a parent with two children next to a parent with none
CompleteMatchingWitness ==
  /\ Succeeded
  /\ parent.isCollection
  /\ \E name \in {"many", "peers"} :
       /\ Requested(name)
       /\ \E i, k \in 1..Len(parent.models) :
            /\ Len(ChildIds(parent.models[i].relations[name])) = 2
            /\ parent.models[k].relations[name] = NewCollection(<<>>)

\* ------------------------------------------------------------------ the batched constraint
\* a list without repetitions
Distinct(vals) == \A i, j \in 1..Len(vals) : vals[i] = vals[j] => i = j

\* C24: the value list of every IN-constraint a load issues, at every level,
\* holds each value once
DistinctInValues ==
  IsLoad =>
    \A i \in 1..Len(queries) : \A k \in 1..Len(queries[i].wheres) :
      queries[i].wheres[k].op = "in" => Distinct(queries[i].wheres[k].vals)

\* C25: after a load of the BelongsTo relation every parent, a single Entity or
\* a member of an Entity Set, whose foreign key names a stored row holds that
\* row under the relation's name
BelongsToEndToEnd ==
  (Succeeded /\ Requested("owner")) =>
    \A i \in 1..Len(parent.models) :
      LET fk == Get(parent.models[i].attrs, "node_id")
          value == parent.models[i].relations["owner"]
      IN fk \in 1..NumRows => (value.kind = "model" /\ value.attrs = Nodes[fk])

\* ------------------------------------------------------------------ the eager-mode flag
\* C26: once a load or a fetch with relations on an Entity has ended, in success,
\* in failure or by throwing, the Entity is not in eager mode, and an accessor
\* called on it afterwards gives a descriptor in constrained mode whose fkValue
\* is bound from the Entity
EagerFlagCleared ==
  /\ (call.op \in {"load", "fetch"} /\ outcome.state \in {"resolved", "rejected", "thrown"})
        => ~parent.isEager
  /\ (call.op = "access" /\ call.loaded) =>
        /\ ~parent.relation.eager
        /\ parent.relation.fkValue =
             IF parent.relation.type = "belongsTo" THEN Get(call.owner, "node_id")
             ELSE IdOf(call.owner)

\* ------------------------------------------------------------------ fetching a relation target
\* a fetch on the target a relation accessor returned in constrained mode
FetchesTarget ==
  call.op = "fetch" /\ parent.relation.type # "none" /\ ~parent.relation.eager

\* the column the relation constrains
ConstrainedColumn(relation) ==
  IF relation.type = "belongsToMany"
  THEN relation.joinTableName \o "." \o relation.otherKey
  ELSE relation.foreignKey

\* C27: the select of a fetch on such a target carries the equality on the
\* relation's foreign key, and the join of the join table for BelongsToMany,
\* whatever the owner the accessor was called on
ConstrainedTargetFetch ==
  FetchesTarget =>
    /\ \E k \in 1..Len(Issued[1].wheres) :
         /\ Issued[1].wheres[k].op = "="
         /\ Issued[1].wheres[k].col = ConstrainedColumn(parent.relation)
    /\ parent.relation.type = "belongsToMany" =>
         \E k \in 1..Len(Issued[1].joins) :
           Issued[1].joins[k].table = parent.relation.joinTableName

\* ------------------------------------------------------------------ a failed load
\* C28: when a relation fetch of a load has failed, at whatever level, and so
\* the load has, no parent the load was called on has had a relation assigned:
\* every relation map is as the load found it
FailedLoadUntouched ==
  (IsLoad /\ (outcome.state = "rejected" \/ Failed # {})) =>
    \A i \in 1..Len(parent.models) : parent.models[i].relations = NoRelations

\* a load on an Entity Set that failed after a nested level had been matched
\* and a fetch of the first level had returned rows
FailedLoadWitness ==
  /\ IsLoad
  /\ outcome.state = "rejected"
  /\ Len(parent.models) >= 2
  /\ \E p \in DOMAIN levels : p # <<>> /\ levels[p].status = "resolved"
  /\ \E p \in DOMAIN fetches : Len(p) = 1 /\ fetches[p].status = "resolved"
                                 /\ fetches[p].resp # <<>>
====
